---- MODULE Spec2Model ----
(***************************************************************************)
(* Verification model of django-channels:                                  *)
(*   - the WebSocket multiplexer (channels/interfaces/websocket_twisted.py)*)
(*   - the ASGI response encoder (channels/http.py)                        *)
(*   - the request / response codecs (channels/request.py, response.py)    *)
(***************************************************************************)
EXTENDS Integers, Sequences, FiniteSets, TLC

(***************************************************************************)
(* Bounds                                                                  *)
(***************************************************************************)
MaxConns == 2
MaxQueue == 1
MaxSends == 2
MaxFrames == 1
MaxContent == 1
MaxBody == 3
MaxParts == 2
MaxPartLen == 2
MaxChunkSize == 2
MaxByte == 1
MaxValues == 2
MaxRespBody == 2
MaxRequests == 2
MaxCalls == 3
MaxProtocolFrames == 2

None == 0

Conns == 1..MaxConns
Names == 1..MaxConns
Contents == 1..MaxContent

\* Outbound dispatch message: content, and an optional binary field.
Messages ==
    [content : Contents] \cup [content : Contents, binary : BOOLEAN]

VARIABLES
    \* ---- WebSocket multiplexer ----
    conn_state,       \* per connection: "new", "opening", "open", "closing",
                      \* "closed" ("opening"/"closing": inside onOpen/onClose)
    send_channel,     \* InterfaceProtocol.send_channel (None before onOpen)
    protocols,        \* InterfaceFactory.protocols: reply channel -> connection
    names_generated,  \* how many reply-channel names Channel.new_name produced
    queues,           \* backend: FIFO queue of each reply channel
    sent,             \* backend: FIFO queue of each django.websocket.* channel
    written,          \* per connection: frames written to its socket
    reader_pc,        \* backend_reader position
    channels,         \* backend_reader local: snapshot of send_channels()
    recv,             \* backend_reader locals: channel, message
    nsends,           \* number of consumer sends so far (bounded)
    nframes,          \* number of inbound frames so far (bounded)
    inbound,          \* per connection: the frames that arrived, in order
    \* ---- AsgiHandler.encode_response ----
    response,         \* the Django response being encoded
    chunk_size,       \* AsgiHandler.chunk_size
    out,              \* the messages the generator has yielded so far
    enc_pc,           \* generator position: "start", "body", "final", "done"
    part_i,           \* index of the streaming part being chunked
    chunk_i,          \* index of the next chunk of the current body / part
    \* ---- request codec (channels/request.py) ----
    request,          \* the request R handed to encode_request
    req_value,        \* the encoded message
    req_decoded,      \* the request rebuilt by decode_request
    req_pc,           \* "encode", "decode", "done"
    \* ---- response codec (channels/response.py) ----
    PY3,              \* django.utils.six.PY3
    resp,             \* the response handed to encode_response
    resp_value,       \* the encoded message
    resp_decoded,     \* the response rebuilt by decode_response
    resp_pc,          \* "encode", "decode", "done", "raised"
    \* ---- AsgiHandler.__call__ / handle (channels/http.py) ----
    h_pc,             \* "receive", "handle", "get_response", "encode",
                      \* "stopped", "raised"
    h_trace,          \* what the application did so far: receive, send, close
    h_nreq,           \* number of http.request messages received (bounded)
    h_nsent,          \* messages of the current response already sent
    h_uncaught,       \* how the current request's view exception was handled
    h_request,        \* how building the current request ended (line 200)
    \* ---- consumer decorators (channels/decorators.py) ----
    sessions,         \* the session backend: session key -> saved session data
    d_last,           \* the latest call of an http_session / http_django_auth
                      \* consumer
    d_hist,           \* the calls of send_channel_session consumers, in order
    \* ---- runserver (channels/management/commands/runserver.py) ----
    consumers,        \* the consumer registry: channel name -> handler
    rs_pc,            \* inner_run position: "check", "start_worker", "serve",
                      \* "serving", "raised"
    rs_added,         \* add_consumer was called for the default consumer
    rs_error,         \* the exception that left inner_run, if any
    worker_started,   \* the worker thread was started
    w_channels        \* worker: the channel names it polls

wsVars == <<conn_state, send_channel, protocols, names_generated, queues, sent,
            written, reader_pc, channels, recv, nsends, nframes, inbound>>

httpVars == <<response, chunk_size, out, enc_pc, part_i, chunk_i>>

reqVars == <<request, req_value, req_decoded, req_pc>>

respVars == <<PY3, resp, resp_value, resp_decoded, resp_pc>>

hVars == <<h_pc, h_trace, h_nreq, h_nsent, h_uncaught, h_request>>

dVars == <<sessions, d_last, d_hist>>

rVars == <<consumers, rs_pc, rs_added, rs_error, worker_started, w_channels>>

vars == <<wsVars, httpVars, reqVars, respVars, hVars, dVars, rVars>>

nonWsVars == <<httpVars, reqVars, respVars, hVars, dVars, rVars>>
nonHttpVars == <<wsVars, reqVars, respVars, hVars, dVars, rVars>>
nonReqVars == <<wsVars, httpVars, respVars, hVars, dVars, rVars>>
nonRespVars == <<wsVars, httpVars, reqVars, hVars, dVars, rVars>>
nonHandleVars == <<wsVars, reqVars, respVars, dVars, rVars>>
nonDecoratorVars == <<wsVars, httpVars, reqVars, respVars, hVars, rVars>>
nonRunserverVars == <<wsVars, httpVars, reqVars, respVars, hVars, dVars>>

(***************************************************************************)
(* WebSocket multiplexer                                                   *)
(***************************************************************************)

WsChannels == {"django.websocket.connect", "django.websocket.receive",
               "django.websocket.disconnect"}

\* Channel.new_name: a fresh name, never generated before.
new_name == names_generated + 1

\* Channel(name).send(**fields) on one of the django.websocket.* channels.
ChannelSend(name, fields) == [sent EXCEPT ![name] = Append(@, fields)]

\* InterfaceFactory.__init__
FactoryInit == protocols = << >>

\* send_channels that also returns the names of connections long closed
send_channels_ever == 1..names_generated

\* InterfaceFactory.send_channels
send_channels == DOMAIN protocols

\* an assignment that is lost
DictSetLost(d, k, v) == d

\* dict item assignment  protocols[k] = v
DictSet(d, k, v) == [x \in (DOMAIN d) \cup {k} |-> IF x = k THEN v ELSE d[x]]

\* a deletion that is lost
DictDelLost(d, k) == d

\* dict item deletion  del protocols[k]
DictDel(d, k) == [x \in (DOMAIN d) \ {k} |-> d[x]]

WsIdle ==
    /\ conn_state = [c \in Conns |-> "closed"]
    /\ send_channel = [c \in Conns |-> None]
    /\ protocols = << >>
    /\ names_generated = 0
    /\ queues = [n \in Names |-> << >>]
    /\ sent = [ch \in WsChannels |-> << >>]
    /\ written = [c \in Conns |-> << >>]
    /\ reader_pc = "idle"
    /\ channels = {}
    /\ recv = [channel |-> None, message |-> [content |-> None]]
    /\ nsends = 0
    /\ nframes = 0
    /\ inbound = [c \in Conns |-> << >>]

WsInit ==
    /\ conn_state = [c \in Conns |-> "new"]
    /\ send_channel = [c \in Conns |-> None]
    /\ FactoryInit
    /\ names_generated = 0
    /\ queues = [n \in Names |-> << >>]
    /\ sent = [ch \in WsChannels |-> << >>]
    /\ written = [c \in Conns |-> << >>]
    /\ reader_pc = "snapshot"
    /\ channels = {}
    /\ recv = [channel |-> None, message |-> [content |-> None]]
    /\ nsends = 0
    /\ nframes = 0
    /\ inbound = [c \in Conns |-> << >>]

\* bytes.decode('utf8') for one- and two-byte sequences; ok is false where
\* python raises UnicodeDecodeError
RECURSIVE utf8_decode(_)
utf8_decode(b) ==
    IF b = << >> THEN [ok |-> TRUE, s |-> << >>]
    ELSE IF b[1] < 128
      THEN LET r == utf8_decode(Tail(b)) IN
             [ok |-> r.ok, s |-> <<b[1]>> \o r.s]
    ELSE IF b[1] >= 194 /\ b[1] <= 223 /\ Len(b) >= 2
            /\ b[2] >= 128 /\ b[2] <= 191
      THEN LET r == utf8_decode(SubSeq(b, 3, Len(b))) IN
             [ok |-> r.ok, s |-> <<(b[1] - 192) * 64 + (b[2] - 128)>> \o r.s]
    ELSE [ok |-> FALSE, s |-> << >>]

\* str.encode('utf-8') for code points below U+0800
RECURSIVE utf8_encode(_)
utf8_encode(str) ==
    IF str = << >> THEN << >>
    ELSE (IF str[1] < 128 THEN <<str[1]>>
          ELSE <<192 + (str[1] \div 64), 128 + (str[1] % 64)>>)
         \o utf8_encode(Tail(str))

\* the payload of an inbound frame: U+00E9 in UTF-8, or a run of "A"
Payload(k) == IF k = 1 THEN <<195, 169>> ELSE [i \in 1..(k - 1) |-> 65]

FramePayloads == {Payload(k) : k \in Contents}

\* how many inbound frames a run takes: more when only the protocol callbacks
\* run and no backend reader
FrameLimit == IF reader_pc = "idle" THEN MaxProtocolFrames ELSE MaxFrames

\* an onMessage that forwards the payload of a text frame undecoded
frame_content_raw(payload, isBinary) == payload

\* lines 29-40: the content of the receive message
frame_content(payload, isBinary) ==
    IF isBinary THEN payload ELSE utf8_decode(payload).s

\* The reactor runs one protocol callback at a time, to completion; the
\* backend reader is another thread and may run in the middle of a callback.
ReactorIdle == \A c \in Conns : conn_state[c] \notin {"opening", "closing"}

\* InterfaceProtocol.onOpen, lines 20-22: make the sending channel and register
onOpen(c) ==
    /\ ReactorIdle
    /\ conn_state[c] = "new"
    /\ conn_state' = [conn_state EXCEPT ![c] = "opening"]
    /\ send_channel' = [send_channel EXCEPT ![c] = new_name]
    /\ names_generated' = names_generated + 1
    /\ protocols' = DictSet(protocols, new_name, c)
    /\ UNCHANGED inbound
    /\ UNCHANGED nonWsVars
    /\ UNCHANGED <<queues, sent, written, reader_pc, channels, recv, nsends,
                   nframes>>

\* InterfaceProtocol.onOpen, lines 23-26: send news that this channel is open
onOpenSend(c) ==
    /\ conn_state[c] = "opening"
    /\ conn_state' = [conn_state EXCEPT ![c] = "open"]
    /\ sent' = ChannelSend("django.websocket.connect",
                   [send_channel |-> send_channel[c]])
    /\ UNCHANGED inbound
    /\ UNCHANGED nonWsVars
    /\ UNCHANGED <<send_channel, names_generated, protocols, queues, written,
                   reader_pc, channels, recv, nsends, nframes>>

\* InterfaceProtocol.onMessage
onMessage(c, payload, isBinary) ==
    /\ ReactorIdle
    /\ conn_state[c] = "open"
    /\ nframes < FrameLimit
    /\ isBinary \/ utf8_decode(payload).ok
    /\ nframes' = nframes + 1
    /\ inbound' = [inbound EXCEPT ![c] =
                      Append(@, [payload |-> payload, isBinary |-> isBinary])]
    /\ sent' = ChannelSend("django.websocket.receive",
                   [send_channel |-> send_channel[c],
                    content |-> frame_content(payload, isBinary),
                    binary |-> isBinary])
    /\ UNCHANGED nonWsVars
    /\ UNCHANGED <<conn_state, send_channel, protocols, names_generated, queues,
                   written, reader_pc, channels, recv, nsends>>

\* InterfaceProtocol.onClose, line 46: the library calls onClose when the
\* connection is lost, also when the opening handshake never completed and
\* onOpen did not run; self.send_channel is then unset and reading it raises
\* AttributeError, which ends the callback.
onClose(c) ==
    /\ ReactorIdle
    /\ conn_state[c] \in {"new", "open"}
    /\ IF send_channel[c] = None
         THEN /\ conn_state' = [conn_state EXCEPT ![c] = "closed"]
              /\ UNCHANGED protocols
         ELSE /\ conn_state' = [conn_state EXCEPT ![c] = "closing"]
              /\ protocols' = DictDel(protocols, send_channel[c])
    /\ UNCHANGED inbound
    /\ UNCHANGED nonWsVars
    /\ UNCHANGED <<send_channel, names_generated, queues, sent, written,
                   reader_pc, channels, recv, nsends, nframes>>

\* InterfaceProtocol.onClose, lines 47-49: send the disconnect message
onCloseSend(c) ==
    /\ conn_state[c] = "closing"
    /\ conn_state' = [conn_state EXCEPT ![c] = "closed"]
    /\ sent' = ChannelSend("django.websocket.disconnect",
                   [send_channel |-> send_channel[c]])
    /\ UNCHANGED inbound
    /\ UNCHANGED nonWsVars
    /\ UNCHANGED <<send_channel, names_generated, protocols, queues, written,
                   reader_pc, channels, recv, nsends, nframes>>

\* the reply channels announced so far on the django.websocket.* channels
AnnouncedNames ==
    UNION {{sent[ch][i].send_channel : i \in 1..Len(sent[ch])} : ch \in WsChannels}

\* A consumer answers on a reply channel it learnt from a connect/receive message.
ConsumerSend(n, m) ==
    /\ n \in AnnouncedNames
    /\ nsends < MaxSends
    /\ Len(queues[n]) < MaxQueue
    /\ nsends' = nsends + 1
    /\ queues' = [queues EXCEPT ![n] = Append(@, m)]
    /\ UNCHANGED inbound
    /\ UNCHANGED nonWsVars
    /\ UNCHANGED <<conn_state, send_channel, protocols, names_generated, sent,
                   written, reader_pc, channels, recv, nframes>>

\* onChannelSend that drops the binary flag: sendMessage(content)
onChannelSendText(message) == <<message.content, FALSE>>

\* InterfaceProtocol.onChannelSend: the frame handed to sendMessage(content, binary)
onChannelSend(message) ==
    <<message.content,
      IF "binary" \in DOMAIN message THEN message.binary ELSE FALSE>>

\* InterfaceFactory.dispatch_send: the socket log after the call; the lookup
\* self.protocols[channel] raises KeyError when the channel has no entry.
dispatch_send_raises(channel) == channel \notin DOMAIN protocols

dispatch_send(channel, message) ==
    [written EXCEPT ![protocols[channel]] = Append(@, onChannelSend(message))]

\* backend_reader, line 94-100: snapshot the live reply channels
ReaderSnapshot ==
    /\ reader_pc = "snapshot"
    /\ channels' = send_channels
    /\ reader_pc' = IF send_channels # {} THEN "receive" ELSE "snapshot"
    /\ UNCHANGED inbound
    /\ UNCHANGED nonWsVars
    /\ UNCHANGED <<conn_state, send_channel, protocols, names_generated, queues,
                   sent, written, recv, nsends, nframes>>

\* backend_reader, line 97: receive_many returns a message of channel n
ReaderReceive(n) ==
    /\ reader_pc = "receive"
    /\ n \in channels
    /\ queues[n] # << >>
    /\ recv' = [channel |-> n, message |-> Head(queues[n])]
    /\ queues' = [queues EXCEPT ![n] = Tail(@)]
    /\ reader_pc' = "dispatch"
    /\ UNCHANGED inbound
    /\ UNCHANGED nonWsVars
    /\ UNCHANGED <<conn_state, send_channel, protocols, names_generated, sent,
                   written, channels, nsends, nframes>>

\* backend_reader, line 97 and 102-104: receive_many returns (None, None)
ReaderReceiveNone ==
    /\ reader_pc = "receive"
    /\ \A n \in channels : queues[n] = << >>
    /\ recv' = [channel |-> None, message |-> [content |-> None]]
    /\ reader_pc' = "snapshot"
    /\ UNCHANGED inbound
    /\ UNCHANGED nonWsVars
    /\ UNCHANGED <<conn_state, send_channel, protocols, names_generated, queues,
                   sent, written, channels, nsends, nframes>>

\* backend_reader, line 106: dispatch; an exception ends the reader thread
ReaderDispatch ==
    /\ reader_pc = "dispatch"
    /\ IF dispatch_send_raises(recv.channel)
         THEN /\ reader_pc' = "crashed"
              /\ UNCHANGED written
         ELSE /\ reader_pc' = "snapshot"
              /\ written' = dispatch_send(recv.channel, recv.message)
    /\ UNCHANGED inbound
    /\ UNCHANGED nonWsVars
    /\ UNCHANGED <<conn_state, send_channel, protocols, names_generated, queues,
                   sent, channels, recv, nsends, nframes>>

WsNext ==
    \/ \E c \in Conns : onOpen(c)
    \/ \E c \in Conns : onOpenSend(c)
    \/ \E c \in Conns : \E p \in FramePayloads : \E b \in BOOLEAN : onMessage(c, p, b)
    \/ \E c \in Conns : onClose(c)
    \/ \E c \in Conns : onCloseSend(c)
    \/ \E n \in Names : \E m \in Messages : ConsumerSend(n, m)
    \/ ReaderSnapshot
    \/ \E n \in Names : ReaderReceive(n)
    \/ ReaderReceiveNone
    \/ ReaderDispatch


(***************************************************************************)
(* Properties of the WebSocket multiplexer                                 *)
(***************************************************************************)

\* the connection that generated reply channel n and is still open, if any
OpenOwners(n) == {c \in Conns : conn_state[c] = "open" /\ send_channel[c] = n}
ClosedOwners(n) == {c \in Conns : conn_state[c] = "closed" /\ send_channel[c] = n}

\* the step in which backend_reader calls dispatch_send(recv.channel, recv.message)
DispatchStep == reader_pc = "dispatch" /\ reader_pc' # "dispatch"

\* C1: after a connection's onClose has run, dispatch_send for its former
\* reply channel is a no-op: no exception reaches backend_reader (the reader
\* goes on to its next cycle) and no socket is written to.
C1_DispatchAfterCloseIsNoop ==
    [][(DispatchStep /\ ClosedOwners(recv.channel) # {}) =>
          (reader_pc' = "snapshot" /\ written' = written)]_vars

\* C2: the reader keeps cycling whatever opens and closes interleave with it,
\* so a message waiting on the reply channel of a connection that stays open
\* is eventually written to that connection's socket.
C2_ReaderDeliversToLiveConnections ==
    \A c \in Conns : \A k \in 0..MaxSends :
       (conn_state[c] = "open" /\ queues[send_channel[c]] # << >>
          /\ Len(written[c]) = k)
       ~> (conn_state[c] # "open" \/ Len(written[c]) > k)

\* C3: a message the reader received on reply channel n while the connection
\* that generated n is open is written exactly once: it was taken off the
\* queue of n when received, the dispatch appends one frame with the message's
\* content and its binary field (false when absent) to that connection's
\* socket and leaves every other socket alone, and nothing else writes to a
\* socket.
C3_DeliveredOnceToOwner ==
    [][/\ (written' # written) => DispatchStep
       /\ (reader_pc = "receive" /\ reader_pc' = "dispatch") =>
            /\ recv'.message = Head(queues[recv'.channel])
            /\ queues' = [queues EXCEPT ![recv'.channel] = Tail(@)]
       /\ (DispatchStep /\ OpenOwners(recv.channel) # {}) =>
            \E c \in OpenOwners(recv.channel) :
               written' = [written EXCEPT ![c] =
                   Append(@, <<recv.message.content,
                               IF "binary" \in DOMAIN recv.message
                                 THEN recv.message.binary ELSE FALSE>>)]
      ]_vars

C3_Witness ==
    \E c, d \in Conns :
       /\ c # d
       /\ conn_state[c] = "open" /\ conn_state[d] = "open"
       /\ written[c] = << <<1, TRUE>> >>
       /\ written[d] = << >>
       /\ reader_pc = "snapshot"


\* the number of messages on channel ch tagged with reply channel n
Tagged(ch, n) == Cardinality({i \in 1..Len(sent[ch]) : sent[ch][i].send_channel = n})

\* connections between the registration in onOpen and the removal in onClose
Live == {c \in Conns : conn_state[c] \in {"opening", "open"}}

\* C11: onOpen generates a fresh reply channel, registers the connection under
\* it and only then sends the connect message: inside onOpen, after the
\* registration, the name is new to every other connection, is in the map and
\* no connect message for it is visible; and every connect message visible in
\* the backend names a channel whose connection has been registered (it is
\* still in the map as long as that connection has not begun to close).
C11_ConnectAfterRegistration ==
    /\ \A c \in Conns : conn_state[c] = "opening" =>
         /\ send_channel[c] \in DOMAIN protocols
         /\ protocols[send_channel[c]] = c
         /\ Tagged("django.websocket.connect", send_channel[c]) = 0
         /\ \A d \in Conns \ {c} : send_channel[d] # send_channel[c]
    /\ \A i \in 1..Len(sent["django.websocket.connect"]) :
         LET n == sent["django.websocket.connect"][i].send_channel IN
           \E c \in Conns :
              /\ send_channel[c] = n
              /\ conn_state[c] \in {"open", "closing", "closed"}
              /\ conn_state[c] = "open" => (n \in DOMAIN protocols /\ protocols[n] = c)

C11_Witness ==
    \E c, d \in Conns :
       /\ conn_state[c] = "open"
       /\ Tagged("django.websocket.connect", send_channel[c]) = 1
       /\ conn_state[d] = "opening"
       /\ send_channel[d] \in DOMAIN protocols
       /\ Len(sent["django.websocket.connect"]) = 1

\* C12: whenever a connection's onClose runs, whatever came before, it removes
\* the connection's entry from the map and then sends exactly one disconnect
\* message tagged with the connection's reply channel: after the removal and
\* before the send no disconnect message for it is visible, and once onClose
\* is over there is exactly one.
C12_CloseRemovesThenDisconnects ==
    \A c \in Conns :
       /\ conn_state[c] = "closing" =>
            /\ send_channel[c] \notin DOMAIN protocols
            /\ Tagged("django.websocket.disconnect", send_channel[c]) = 0
       /\ conn_state[c] = "closed" =>
            /\ send_channel[c] \notin DOMAIN protocols
            /\ Tagged("django.websocket.disconnect", send_channel[c]) = 1

\* the reply channels of the live connections
LiveNames == {send_channel[c] : c \in Live}

\* C13: in each cycle of backend_reader the channels given to receive_many are
\* the snapshot of the live reply channels taken at the start of the cycle
\* (only that step changes the snapshot); with an empty snapshot the reader
\* neither receives nor dispatches and takes a new snapshot; when receive_many
\* returns no channel it dispatches nothing and takes a new snapshot; it
\* dispatches only what receive_many returned from a snapshot channel.
C13_ReaderCycle ==
    [][/\ (channels' # channels) => reader_pc = "snapshot"
       /\ (reader_pc = "snapshot" /\ <<reader_pc, channels>>' # <<reader_pc, channels>>) =>
            /\ channels' = LiveNames
            /\ reader_pc' = IF LiveNames = {} THEN "snapshot" ELSE "receive"
       /\ (reader_pc = "snapshot" /\ LiveNames = {}) =>
            /\ reader_pc' = "snapshot"
            /\ \A n \in Names : Len(queues'[n]) >= Len(queues[n])
            /\ written' = written
       /\ (reader_pc = "receive" /\ reader_pc' # "receive") =>
            /\ channels # {}
            /\ IF queues' # queues
                 THEN /\ reader_pc' = "dispatch"
                      /\ recv'.channel \in channels
                      /\ queues[recv'.channel] # << >>
                 ELSE /\ reader_pc' = "snapshot"
                      /\ \A n \in channels : queues[n] = << >>
                      /\ written' = written
       /\ (reader_pc' = "dispatch") => reader_pc \in {"receive", "dispatch"}
      ]_vars

C13_Witness ==
    /\ reader_pc = "dispatch"
    /\ recv.channel \in channels
    /\ channels # LiveNames
    /\ LiveNames # {}

\* C20: the keys of the factory's map are exactly the reply channels of the
\* connections registered by onOpen and not yet removed by onClose, each key
\* maps to the connection whose send_channel is that key, and a step of one
\* connection's onOpen or onClose leaves the entry of every other connection
\* as it was.
C20_MapTracksLiveConnections ==
    /\ [](/\ DOMAIN protocols = LiveNames
          /\ \A n \in DOMAIN protocols : send_channel[protocols[n]] = n)
    /\ [][\A c \in Conns :
            (conn_state'[c] # conn_state[c]) =>
               \A d \in Conns \ {c} :
                  /\ send_channel'[d] = send_channel[d]
                  /\ (send_channel[d] \in DOMAIN protocols)
                       <=> (send_channel[d] \in DOMAIN protocols')
                  /\ (send_channel[d] \in DOMAIN protocols) =>
                       protocols'[send_channel[d]] = protocols[send_channel[d]]
         ]_vars

C20_Witness ==
    \E c, d \in Conns :
       /\ conn_state[c] = "closed" /\ send_channel[c] # None
       /\ conn_state[d] = "open"
       /\ send_channel[d] > send_channel[c]
       /\ DOMAIN protocols = {send_channel[d]}

\* how many messages tagged with reply channel n the queue q of a channel holds
TaggedIn(q, n) == Cardinality({i \in 1..Len(q) : q[i].send_channel = n})

\* the receive messages tagged with reply channel n, in the order sent
ReceivesOf(n) ==
    SelectSeq(sent["django.websocket.receive"], LAMBDA m : m.send_channel = n)

\* message m is the receive message of frame f: the raw payload and
\* binary = true for a binary frame, the text whose UTF-8 encoding is the
\* payload and binary = false for a text frame
ReceiveOfFrame(m, f) ==
    /\ m.binary = f.isBinary
    /\ f.isBinary => m.content = f.payload
    /\ ~f.isBinary => utf8_encode(m.content) = f.payload

\* C21: a connection that opened sends one connect message, then one receive
\* message per inbound frame in arrival order (raw payload and binary = true
\* for a binary frame, decoded text and binary = false for a text frame), then
\* one disconnect message; all of them carry its send_channel, which no other
\* connection uses, and no receive message follows the disconnect.
C21_ConnectReceivesDisconnect ==
    /\ [](\A c \in Conns : send_channel[c] # None =>
            LET n == send_channel[c] IN
              /\ \A d \in Conns \ {c} : send_channel[d] # n
              /\ TaggedIn(sent["django.websocket.connect"], n)
                   = (IF conn_state[c] = "opening" THEN 0 ELSE 1)
              /\ TaggedIn(sent["django.websocket.disconnect"], n)
                   = (IF conn_state[c] = "closed" THEN 1 ELSE 0)
              /\ Len(ReceivesOf(n)) = Len(inbound[c])
              /\ \A i \in 1..Len(inbound[c]) :
                   ReceiveOfFrame(ReceivesOf(n)[i], inbound[c][i]))
    /\ [][\A n \in Names :
            LET connects == TaggedIn(sent["django.websocket.connect"], n)
                receives == TaggedIn(sent["django.websocket.receive"], n)
                disconnects == TaggedIn(sent["django.websocket.disconnect"], n)
            IN /\ TaggedIn(sent'["django.websocket.connect"], n) > connects =>
                    (connects = 0 /\ receives = 0 /\ disconnects = 0)
               /\ TaggedIn(sent'["django.websocket.receive"], n) > receives =>
                    (connects = 1 /\ disconnects = 0)
               /\ TaggedIn(sent'["django.websocket.disconnect"], n) > disconnects =>
                    (connects = 1 /\ disconnects = 0)
               /\ \A ch \in WsChannels :
                    \/ sent'[ch] = sent[ch]
                    \/ Len(sent'[ch]) = Len(sent[ch]) + 1
                         /\ SubSeq(sent'[ch], 1, Len(sent[ch])) = sent[ch]
         ]_vars

\* a connection took a text frame and then a binary frame with the same
\* payload, and closed
C21_Witness ==
    \E c \in Conns :
       /\ conn_state[c] = "closed"
       /\ send_channel[c] # None
       /\ inbound[c] = << [payload |-> <<195, 169>>, isBinary |-> FALSE],
                          [payload |-> <<195, 169>>, isBinary |-> TRUE] >>
       /\ ReceivesOf(send_channel[c]) =
            << [send_channel |-> send_channel[c], content |-> <<233>>,
                binary |-> FALSE],
               [send_channel |-> send_channel[c], content |-> <<195, 169>>,
                binary |-> TRUE] >>
       /\ TaggedIn(sent["django.websocket.disconnect"], send_channel[c]) = 1


(***************************************************************************)
(* AsgiHandler.encode_response / chunk_bytes  (channels/http.py)           *)
(***************************************************************************)

Min(a, b) == IF a < b THEN a ELSE b

HttpBytes == 0..MaxByte

\* byte strings of length at most n
BytesUpTo(n) == UNION {[1..k -> HttpBytes] : k \in 0..n}

\* sequences of at most n elements of S
SeqUpTo(S, n) == UNION {[1..k -> S] : k \in 0..n}

\* text and byte strings are different types; s is the character data
Text(s) == [t |-> "text", s |-> s]
Bytes(s) == [t |-> "bytes", s |-> s]

\* six.binary_type(x.encode(...)) for text, six.binary_type(x) for bytes
EncodeHeaderPart(x) == Bytes(x.s)

\* Morsel.output(header=''): " key=value"
MorselOutput(c) == Text(<<" ", c.key, "=", c.value>>)

\* the slice data[a:b-1], one element short
SliceShort(data, a, b) == SubSeq(data, a + 1, Min(b - 1, Len(data)))

\* python slice data[a:b]
Slice(data, a, b) == SubSeq(data, a + 1, Min(b, Len(data)))

\* chunk_loop with the last-chunk test  position + chunk_size > len(data)
RECURSIVE chunk_loop_strict(_, _)
chunk_loop_strict(data, position) ==
    IF position < Len(data)
      THEN << <<Slice(data, position, position + chunk_size),
                (position + chunk_size) > Len(data)>> >>
           \o chunk_loop_strict(data, position + chunk_size)
      ELSE << >>

\* the while loop of chunk_bytes, from the given position on
RECURSIVE chunk_loop(_, _)
chunk_loop(data, position) ==
    IF position < Len(data)
      THEN << <<Slice(data, position, position + chunk_size),
                (position + chunk_size) >= Len(data)>> >>
           \o chunk_loop(data, position + chunk_size)
      ELSE << >>

\* chunk_bytes flagging the single chunk of empty data as not the last
chunk_bytes_empty_more(data) ==
    IF data = << >> THEN << <<data, FALSE>> >> ELSE chunk_loop(data, 0)

\* AsgiHandler.chunk_bytes: the (chunk, last_chunk) tuples it yields
chunk_bytes(data) ==
    IF data = << >> THEN << <<data, TRUE>> >> ELSE chunk_loop(data, 0)

\* response headers without the cookies
response_headers_no_cookies(rsp) ==
    [i \in 1..Len(rsp.headers) |->
        <<EncodeHeaderPart(rsp.headers[i][1]), EncodeHeaderPart(rsp.headers[i][2])>>]

\* lines 250-268: response headers followed by the flattened cookies
response_headers(rsp) ==
    [i \in 1..Len(rsp.headers) |->
        <<EncodeHeaderPart(rsp.headers[i][1]), EncodeHeaderPart(rsp.headers[i][2])>>]
    \o [i \in 1..Len(rsp.cookies) |->
        <<Bytes("Set-Cookie"), EncodeHeaderPart(MorselOutput(rsp.cookies[i]))>>]

SomeHeaders ==
    { << >>,
      << <<Text("Content-Type"), Text("text/html")>>,
         <<Bytes("X-Frame-Options"), Bytes("DENY")>> >> }

SomeCookies == { << >>, << [key |-> "sessionid", value |-> "abc"] >> }

Responses ==
    [streaming : {FALSE}, status_code : {200, 404}, headers : SomeHeaders,
     cookies : SomeCookies, content : BytesUpTo(MaxBody), parts : {<< >>}]
    \cup
    [streaming : {TRUE}, status_code : {200, 404}, headers : SomeHeaders,
     cookies : SomeCookies, content : {<< >>},
     parts : SeqUpTo(BytesUpTo(MaxPartLen), MaxParts)]

NoResponse ==
    [streaming |-> FALSE, status_code |-> 0, headers |-> << >>,
     cookies |-> << >>, content |-> << >>, parts |-> << >>]

HttpIdle ==
    /\ response = NoResponse
    /\ chunk_size = 1
    /\ out = << >>
    /\ enc_pc = "idle"
    /\ part_i = 0
    /\ chunk_i = 0

HttpInit ==
    /\ response \in Responses
    /\ chunk_size \in 1..MaxChunkSize
    /\ out = << >>
    /\ enc_pc = "start"
    /\ part_i = 1
    /\ chunk_i = 1

\* lines 270-274: the initial response message
StartMessage(rsp) ==
    [type |-> "http.response.start",
     status |-> rsp.status_code,
     headers |-> response_headers(rsp)]

\* a chunk message of a streaming part with the more flag passed on; the code
\* ignores the flag (see StreamChunkMessage)
StreamChunkMessageMore(chunk, last) ==
    [type |-> "http.response.chunk", content |-> chunk, more_content |-> ~last]

\* lines 280-287: the message for one chunk of a streaming part
StreamChunkMessage(chunk, last) ==
    [type |-> "http.response.chunk", content |-> chunk, more_content |-> TRUE]

\* lines 289-291: final closing message of a streaming body
FinalMessage == [type |-> "http.response.chunk"]

\* lines 295-300: the message for one chunk of a non-streaming body
ChunkMessage(chunk, last) ==
    [type |-> "http.response.chunk", content |-> chunk, more_content |-> ~last]

\* lines 270-274: yield the initial response message
EncodeStart ==
    /\ enc_pc = "start"
    /\ out' = Append(out, StartMessage(response))
    /\ enc_pc' = IF response.streaming
                   THEN (IF Len(response.parts) = 0 THEN "final" ELSE "stream")
                   ELSE "body"
    /\ UNCHANGED <<response, chunk_size, part_i, chunk_i>>
    /\ UNCHANGED nonHttpVars

\* yield the current part of a streaming body whole, without chunk_bytes
EncodeStreamWhole ==
    /\ enc_pc = "stream"
    /\ out' = Append(out, StreamChunkMessage(response.parts[part_i], TRUE))
    /\ chunk_i' = 1
    /\ part_i' = part_i + 1
    /\ enc_pc' = IF part_i < Len(response.parts) THEN "stream" ELSE "final"
    /\ UNCHANGED <<response, chunk_size>>
    /\ UNCHANGED nonHttpVars

\* lines 279-287: yield the next chunk of the current part of a streaming body
EncodeStreamChunk ==
    /\ enc_pc = "stream"
    /\ LET cb == chunk_bytes(response.parts[part_i]) IN
        /\ out' = Append(out, StreamChunkMessage(cb[chunk_i][1], cb[chunk_i][2]))
        /\ IF chunk_i < Len(cb)
             THEN /\ chunk_i' = chunk_i + 1
                  /\ UNCHANGED <<part_i, enc_pc>>
             ELSE /\ chunk_i' = 1
                  /\ part_i' = part_i + 1
                  /\ enc_pc' = IF part_i < Len(response.parts)
                                 THEN "stream" ELSE "final"
    /\ UNCHANGED <<response, chunk_size>>
    /\ UNCHANGED nonHttpVars

\* lines 288-291: yield the final closing message of a streaming body
EncodeStreamFinal ==
    /\ enc_pc = "final"
    /\ out' = Append(out, FinalMessage)
    /\ enc_pc' = "done"
    /\ UNCHANGED <<response, chunk_size, part_i, chunk_i>>
    /\ UNCHANGED nonHttpVars

\* lines 293-300: yield the next chunk of a non-streaming body
EncodeChunk ==
    /\ enc_pc = "body"
    /\ LET cb == chunk_bytes(response.content) IN
        /\ out' = Append(out, ChunkMessage(cb[chunk_i][1], cb[chunk_i][2]))
        /\ chunk_i' = chunk_i + 1
        /\ enc_pc' = IF chunk_i < Len(cb) THEN "body" ELSE "done"
    /\ UNCHANGED <<response, chunk_size, part_i>>
    /\ UNCHANGED nonHttpVars

HttpNext ==
    \/ EncodeStart
    \/ EncodeStreamChunk
    \/ EncodeStreamFinal
    \/ EncodeChunk

(***************************************************************************)
(* Properties of AsgiHandler.encode_response / chunk_bytes                 *)
(***************************************************************************)

CeilDiv(a, b) == (a + b - 1) \div b

RECURSIVE Flatten(_)
Flatten(ss) == IF ss = << >> THEN << >> ELSE Head(ss) \o Flatten(Tail(ss))

\* the chunk messages yielded so far (everything after the start message)
ChunkMsgs == IF out = << >> THEN << >> ELSE Tail(out)

HasContent(m) == "content" \in DOMAIN m
HasMore(m) == "more_content" \in DOMAIN m

\* the byte strings chunk_bytes is applied to while encoding the response
ChunkedData ==
    IF response.streaming
      THEN {response.parts[i] : i \in 1..Len(response.parts)}
      ELSE {response.content}

\* C4: chunk_bytes(B) yields ceil(len(B)/chunk_size) chunks for non-empty B and
\* exactly one empty chunk for empty B, and the chunks concatenated in order
\* give back B; for a non-streaming body these are the chunks that were sent.
C4_ChunkBytesSplitsAndReassembles ==
    /\ \A B \in ChunkedData :
         LET cb == chunk_bytes(B) IN
           /\ B # << >> => Len(cb) = CeilDiv(Len(B), chunk_size)
           /\ B = << >> => (Len(cb) = 1 /\ cb[1][1] = << >>)
           /\ Flatten([i \in 1..Len(cb) |-> cb[i][1]]) = B
    /\ (enc_pc = "done" /\ ~response.streaming) =>
         /\ Flatten([i \in 1..Len(ChunkMsgs) |-> ChunkMsgs[i].content])
              = response.content
         /\ Len(ChunkMsgs) = IF response.content = << >> THEN 1
                             ELSE CeilDiv(Len(response.content), chunk_size)

C4_Witness ==
    /\ enc_pc = "done"
    /\ ~response.streaming
    /\ chunk_size = 2
    /\ Len(response.content) = 3
    /\ Len(ChunkMsgs) = 2

\* C5: for a non-streaming response only the last chunk message has
\* more_content = false: while the body is being sent no chunk message sent so
\* far has it, and when the generator is done exactly the last one has it.
C5_OnlyLastChunkEndsStream ==
    (~response.streaming /\ enc_pc \in {"body", "done"}) =>
       /\ \A i \in 1..Len(ChunkMsgs) :
            (HasMore(ChunkMsgs[i]) /\ ~ChunkMsgs[i].more_content)
              <=> (enc_pc = "done" /\ i = Len(ChunkMsgs))
       /\ enc_pc = "done" => Len(ChunkMsgs) >= 1

C5_Witness ==
    /\ enc_pc = "done"
    /\ ~response.streaming
    /\ Len(ChunkMsgs) = 3
    /\ ChunkMsgs[1].more_content /\ ChunkMsgs[2].more_content
    /\ ~ChunkMsgs[3].more_content

\* C6: a non-streaming response with an empty body produces, after the start
\* message, exactly one chunk message, with empty content and more_content false.
C6_EmptyBodyOneEmptyChunk ==
    (enc_pc = "done" /\ ~response.streaming /\ response.content = << >>) =>
       /\ Len(out) = 2
       /\ out[1].type = "http.response.start"
       /\ out[2] = [type |-> "http.response.chunk", content |-> << >>,
                    more_content |-> FALSE]

C6_Witness ==
    /\ enc_pc = "done"
    /\ ~response.streaming
    /\ response.content = << >>
    /\ Len(out) = 2

\* the contents a streaming body must be sent as: the chunks of each part, in
\* part order
RECURSIVE Cut(_)
Cut(B) ==
    IF Len(B) <= chunk_size THEN <<B>>
    ELSE <<SubSeq(B, 1, chunk_size)>> \o Cut(SubSeq(B, chunk_size + 1, Len(B)))

StreamContents == Flatten([i \in 1..Len(response.parts) |-> Cut(response.parts[i])])

\* C7: a streaming response is sent as the chunks of each part in part order,
\* every one with more_content = true, followed by exactly one final chunk
\* message without content and without more_content; that terminator is the
\* last message and no earlier chunk message signals the end of the stream.
C7_StreamingEndsWithBareChunk ==
    response.streaming =>
       /\ \A i \in 1..Len(ChunkMsgs) :
            IF enc_pc = "done" /\ i = Len(ChunkMsgs)
              THEN ChunkMsgs[i] = [type |-> "http.response.chunk"]
              ELSE /\ HasContent(ChunkMsgs[i])
                   /\ HasMore(ChunkMsgs[i])
                   /\ ChunkMsgs[i].more_content
       /\ enc_pc = "done" =>
            /\ Len(ChunkMsgs) = Len(StreamContents) + 1
            /\ \A i \in 1..Len(StreamContents) :
                 ChunkMsgs[i].content = StreamContents[i]

C7_Witness ==
    /\ enc_pc = "done"
    /\ response.streaming
    /\ Len(response.parts) = 2
    /\ response.parts[1] = << >>
    /\ Len(response.parts[2]) > chunk_size
    /\ Len(ChunkMsgs) = 4

\* C8: the first message produced for any response is the http.response.start
\* message with the response's status code and header list (the headers in
\* order as byte strings, then one Set-Cookie entry per cookie); it is produced
\* exactly once, before every chunk message.
C8_StartMessageFirstAndOnce ==
    /\ enc_pc # "start" <=> Len(out) >= 1
    /\ Len(out) >= 1 =>
         LET m == out[1] IN
           /\ m.type = "http.response.start"
           /\ m.status = response.status_code
           /\ Len(m.headers) = Len(response.headers) + Len(response.cookies)
           /\ \A i \in 1..Len(response.headers) :
                /\ m.headers[i][1] = Bytes(response.headers[i][1].s)
                /\ m.headers[i][2] = Bytes(response.headers[i][2].s)
           /\ \A i \in 1..Len(response.cookies) :
                LET h == m.headers[Len(response.headers) + i] IN
                  /\ h[1] = Bytes("Set-Cookie")
                  /\ h[2] = Bytes(<<" ", response.cookies[i].key, "=",
                                    response.cookies[i].value>>)
    /\ \A i \in 2..Len(out) : out[i].type = "http.response.chunk"

C8_Witness ==
    /\ enc_pc = "done"
    /\ response.status_code = 404
    /\ Len(response.headers) = 2
    /\ Len(response.cookies) = 1
    /\ Len(out) >= 3
    /\ out[1].status = 404


\* how many chunk messages one body or part contributes
NumChunks(B) == IF B = << >> THEN 1 ELSE CeilDiv(Len(B), chunk_size)

\* index in ChunkMsgs of the first chunk of streaming part p
RECURSIVE PartStart(_)
PartStart(p) ==
    IF p = 1 THEN 1 ELSE PartStart(p - 1) + NumChunks(response.parts[p - 1])

\* the indices in ChunkMsgs of the chunks of streaming part p
PartChunks(p) ==
    PartStart(p) .. (PartStart(p) + NumChunks(response.parts[p]) - 1)

\* C15: every chunk message content is at most chunk_size bytes long, and
\* within one body (non-streaming) or one part (streaming) every chunk except
\* the last is exactly chunk_size bytes long.
C15_ChunksBoundedAndFull ==
    /\ \A i \in 1..Len(ChunkMsgs) :
         HasContent(ChunkMsgs[i]) => Len(ChunkMsgs[i].content) <= chunk_size
    /\ ~response.streaming =>
         \A i \in 1..(Len(ChunkMsgs) - 1) :
            Len(ChunkMsgs[i].content) = chunk_size
    /\ response.streaming =>
         \A p \in 1..Len(response.parts) :
            \A i \in PartChunks(p) :
               (i <= Len(ChunkMsgs) /\ i < PartStart(p + 1) - 1) =>
                  Len(ChunkMsgs[i].content) = chunk_size

\* a streaming response whose first part ends on a short chunk and whose
\* second part fills a whole chunk
C15_Witness ==
    /\ enc_pc = "done"
    /\ response.streaming
    /\ chunk_size = 2
    /\ Len(response.parts) = 2
    /\ Len(response.parts[1]) = 1
    /\ Len(response.parts[2]) = 2
    /\ Len(ChunkMsgs) = 3
    /\ Len(ChunkMsgs[1].content) = 1
    /\ Len(ChunkMsgs[2].content) = 2


(***************************************************************************)
(* AsgiHandler.__call__ / handle / handle_uncaught_exception               *)
(* (channels/http.py)                                                      *)
(***************************************************************************)

ZeroBytes(n) == [i \in 1..n |-> 0]

HtmlHeaders == << <<Text("Content-Type"), Text("text/html")>> >>

\* HttpResponse(content, status=..., content_type=...)
HttpResponse(content, status, content_type) ==
    [streaming |-> FALSE, status_code |-> status,
     headers |-> << <<Text("Content-Type"), Text(content_type)>> >>,
     cookies |-> << >>, content |-> content, parts |-> << >>]

\* the responses a view (or a response middleware) hands back
ViewResponses ==
    [streaming : {FALSE}, status_code : {200}, headers : {HtmlHeaders},
     cookies : {<< >>}, content : {ZeroBytes(n) : n \in 0..MaxBody},
     parts : {<< >>}]
    \cup
    [streaming : {TRUE}, status_code : {200}, headers : {HtmlHeaders},
     cookies : {<< >>}, content : {<< >>},
     parts : SeqUpTo({ZeroBytes(n) : n \in 0..MaxPartLen}, MaxParts)]

\* line 208: http.HttpResponseBadRequest()
HttpResponseBadRequest == HttpResponse(<< >>, 400, "text/html")

\* line 211: the body stands for "408 Request Timeout (upload too slow)"
RequestTimeoutResponse == HttpResponse(<<0, 1>>, 408, "text/html")

\* what BaseHandler.handle_uncaught_exception returns when it succeeds
ServerErrorPage == HttpResponse(<<1>>, 500, "text/html")

\* lines 237-240: traceback.format_exc() if settings.DEBUG else
\* "Internal Server Error", as text/plain
HttpResponseServerError(DEBUG) ==
    HttpResponse(IF DEBUG THEN <<1, 1>> ELSE <<0>>, 500, "text/plain")

\* handle_uncaught_exception without the try / except around the super call
handle_uncaught_exception_bare(super_raises, DEBUG) ==
    IF super_raises
      THEN [raised |-> TRUE, response |-> NoResponse]
      ELSE [raised |-> FALSE, response |-> ServerErrorPage]

\* handle_uncaught_exception: the super call, and the fallback when it raises
handle_uncaught_exception(super_raises, DEBUG) ==
    IF super_raises
      THEN [raised |-> FALSE, response |-> HttpResponseServerError(DEBUG)]
      ELSE [raised |-> FALSE, response |-> ServerErrorPage]

RequestOutcomes ==
    {"ok", "UnicodeDecodeError", "RequestTimeout", "RequestAborted"}

Receive(type) == [ev |-> "receive", type |-> type]
Send(m) == [ev |-> "send", message |-> m]
Close == [ev |-> "close"]

HandleIdle ==
    /\ h_pc = "idle"
    /\ h_trace = << >>
    /\ h_nreq = 0
    /\ h_nsent = 0
    /\ h_uncaught = "none"
    /\ h_request = "none"

HandleInit ==
    /\ h_pc = "receive"
    /\ h_trace = << >>
    /\ h_nreq = 0
    /\ h_nsent = 0
    /\ h_uncaught = "none"
    /\ h_request = "none"
    /\ response = NoResponse
    /\ chunk_size \in 1..MaxChunkSize
    /\ out = << >>
    /\ enc_pc = "idle"
    /\ part_i = 0
    /\ chunk_i = 0

\* line 223: encode_response(response) is called; nothing has run yet
StartEncoding(r) ==
    /\ response' = r
    /\ out' = << >>
    /\ enc_pc' = "start"
    /\ part_i' = 1
    /\ chunk_i' = 1
    /\ h_nsent' = 0
    /\ UNCHANGED chunk_size

\* a loop that does not wait for handle() before it receives again
HandleReceiveEarly(type) ==
    /\ h_pc \in {"receive", "encode"}
    /\ type = "http.request" => h_nreq < MaxRequests
    /\ h_trace' = Append(h_trace, Receive(type))
    /\ IF type = "http.disconnect"
         THEN h_pc' = "stopped" /\ UNCHANGED h_nreq
         ELSE h_pc' = "handle" /\ h_nreq' = h_nreq + 1
    /\ h_uncaught' = "none"
    /\ h_request' = "none"
    /\ UNCHANGED <<h_nsent, httpVars>>
    /\ UNCHANGED nonHandleVars

\* lines 183-189: message = await receive(); disconnect ends the loop
HandleReceive(type) ==
    /\ h_pc = "receive"
    /\ type = "http.request" => h_nreq < MaxRequests
    /\ h_trace' = Append(h_trace, Receive(type))
    /\ IF type = "http.disconnect"
         THEN h_pc' = "stopped" /\ UNCHANGED h_nreq
         ELSE h_pc' = "handle" /\ h_nreq' = h_nreq + 1
    /\ h_uncaught' = "none"
    /\ h_request' = "none"
    /\ UNCHANGED <<h_nsent, httpVars>>
    /\ UNCHANGED nonHandleVars

\* handle() without the except clause for RequestAborted: the aborted request
\* is answered like a bad one
HandleRequestClassNoAbort(outcome) ==
    /\ h_pc = "handle"
    /\ IF outcome = "ok"
         THEN h_pc' = "get_response" /\ UNCHANGED <<h_nsent, httpVars>>
         ELSE h_pc' = "encode"
              /\ StartEncoding(IF outcome = "RequestTimeout"
                                 THEN RequestTimeoutResponse
                                 ELSE HttpResponseBadRequest)
    /\ h_request' = outcome
    /\ UNCHANGED <<h_trace, h_nreq, h_uncaught>>
    /\ UNCHANGED nonHandleVars

\* lines 199-214: building the request, and its three failures
HandleRequestClass(outcome) ==
    /\ h_pc = "handle"
    /\ CASE outcome = "ok" ->
              h_pc' = "get_response" /\ UNCHANGED <<h_nsent, httpVars>>
         [] outcome = "UnicodeDecodeError" ->
              h_pc' = "encode" /\ StartEncoding(HttpResponseBadRequest)
         [] outcome = "RequestTimeout" ->
              h_pc' = "encode" /\ StartEncoding(RequestTimeoutResponse)
         [] outcome = "RequestAborted" ->
              h_pc' = "receive" /\ UNCHANGED <<h_nsent, httpVars>>
    /\ h_request' = outcome
    /\ UNCHANGED <<h_trace, h_nreq, h_uncaught>>
    /\ UNCHANGED nonHandleVars

\* line 216: get_response(request) returns the view's response
GetResponseReturns(r) ==
    /\ h_pc = "get_response"
    /\ h_pc' = "encode"
    /\ StartEncoding(r)
    /\ UNCHANGED <<h_trace, h_nreq, h_uncaught, h_request>>
    /\ UNCHANGED nonHandleVars

\* line 216 and lines 228-240: the view raised, and get_response asks
\* handle_uncaught_exception for the response
GetResponseUncaught(super_raises, DEBUG) ==
    /\ h_pc = "get_response"
    /\ LET res == handle_uncaught_exception(super_raises, DEBUG) IN
         IF res.raised
           THEN /\ h_pc' = "raised"
                /\ h_uncaught' = "raised"
                /\ UNCHANGED <<h_nsent, httpVars>>
           ELSE /\ h_pc' = "encode"
                /\ h_uncaught' = IF super_raises THEN "fallback" ELSE "page"
                /\ StartEncoding(res.response)
    /\ UNCHANGED <<h_trace, h_nreq, h_request>>
    /\ UNCHANGED nonHandleVars

\* line 223: the for loop asks the generator for its next message
NextMessageWanted == h_pc = "encode" /\ h_nsent = Len(out)

HandleEncodeStart == NextMessageWanted /\ EncodeStart

HandleEncodeStreamChunk == NextMessageWanted /\ EncodeStreamChunk

HandleEncodeStreamFinal == NextMessageWanted /\ EncodeStreamFinal

HandleEncodeChunk == NextMessageWanted /\ EncodeChunk

\* line 224: self.send(response_message)
HandleSend ==
    /\ h_pc = "encode"
    /\ h_nsent < Len(out)
    /\ h_trace' = Append(h_trace, Send(out[h_nsent + 1]))
    /\ h_nsent' = h_nsent + 1
    /\ UNCHANGED <<h_pc, h_nreq, h_uncaught, h_request, httpVars>>
    /\ UNCHANGED nonHandleVars

\* lines 225-226: the generator is exhausted; response.close()
HandleClose ==
    /\ h_pc = "encode"
    /\ enc_pc = "done"
    /\ h_nsent = Len(out)
    /\ h_trace' = Append(h_trace, Close)
    /\ h_pc' = "receive"
    /\ UNCHANGED <<h_nreq, h_nsent, h_uncaught, h_request, httpVars>>
    /\ UNCHANGED nonHandleVars

HandleNext ==
    \/ \E type \in {"http.request", "http.disconnect"} : HandleReceive(type)
    \/ \E outcome \in RequestOutcomes : HandleRequestClass(outcome)
    \/ \E r \in ViewResponses : GetResponseReturns(r)
    \/ \E super_raises \in BOOLEAN, DEBUG \in BOOLEAN :
          GetResponseUncaught(super_raises, DEBUG)
    \/ HandleEncodeStart
    \/ HandleEncodeStreamChunk
    \/ HandleEncodeStreamFinal
    \/ HandleEncodeChunk
    \/ HandleSend
    \/ HandleClose

(***************************************************************************)
(* Properties of the handler                                               *)
(***************************************************************************)

\* the positions in h_trace of the receive events
ReceiveIndices == {i \in 1..Len(h_trace) : h_trace[i].ev = "receive"}

\* the position of the latest receive event (0 when there is none)
LastReceive ==
    IF ReceiveIndices = {} THEN 0
    ELSE CHOOSE i \in ReceiveIndices : \A j \in ReceiveIndices : j <= i

\* the messages sent for the request being handled (or handled last)
SentForRequest ==
    LET after == SubSeq(h_trace, LastReceive + 1, Len(h_trace))
        sends == SelectSeq(after, LAMBDA e : e.ev = "send")
    IN [i \in 1..Len(sends) |-> sends[i].message]

\* handle() has returned for the request received last
HandleReturned == h_pc = "receive" /\ LastReceive > 0

IsPlainTextServerError(r) ==
    /\ r.status_code = 500
    /\ r.headers = << <<Text("Content-Type"), Text("text/plain")>> >>
    /\ ~r.streaming

\* C14: when the super call of handle_uncaught_exception fails, no exception
\* leaves handle_uncaught_exception: the response is the plain-text
\* server-error response, and handle() sends its start message first and ends
\* with a chunk that has more_content = false.
C14_FallbackResponseIsSent ==
    /\ h_pc # "raised"
    /\ h_uncaught = "fallback" =>
         /\ IsPlainTextServerError(response)
         /\ SentForRequest = SubSeq(out, 1, h_nsent)
         /\ HandleReturned =>
              LET ms == SentForRequest IN
                /\ Len(ms) >= 2
                /\ ms[1].type = "http.response.start"
                /\ ms[1].status = 500
                /\ ms[1].headers = <<<<Bytes("Content-Type"), Bytes("text/plain")>>>>
                /\ \A i \in 2..Len(ms) :
                     /\ ms[i].type = "http.response.chunk"
                     /\ ms[i].more_content = (i < Len(ms))
                /\ h_trace[Len(h_trace)] = Close

C14_Witness ==
    /\ h_uncaught = "fallback"
    /\ HandleReturned
    /\ chunk_size = 1
    /\ Len(SentForRequest) = 3
    /\ ~SentForRequest[3].more_content

\* the position of the first receive event after position i
NextReceiveAfter(i) ==
    IF \E j \in ReceiveIndices : j > i
      THEN CHOOSE j \in ReceiveIndices :
              j > i /\ \A k \in ReceiveIndices : k > i => j <= k
      ELSE Len(h_trace) + 1

\* what the application did for the message received at position i
SegmentOf(i) == SubSeq(h_trace, i + 1, NextReceiveAfter(i) - 1)

MessagesOf(seg) ==
    LET sends == SelectSeq(seg, LAMBDA e : e.ev = "send")
    IN [i \in 1..Len(sends) |-> sends[i].message]

\* a chunk message after which the response body is over
EndsStream(m) ==
    m.type = "http.response.chunk" /\ (HasMore(m) => ~m.more_content)

\* one start message, then chunk messages of which only the last ends the
\* stream
CompleteResponse(ms) ==
    /\ Len(ms) >= 2
    /\ ms[1].type = "http.response.start"
    /\ \A i \in 2..Len(ms) :
         /\ ms[i].type = "http.response.chunk"
         /\ i < Len(ms) => (HasMore(ms[i]) /\ ms[i].more_content)
    /\ EndsStream(ms[Len(ms)])

\* every message of a complete response was sent, and then the response was
\* closed
SentAndClosed(seg) ==
    /\ Len(seg) >= 3
    /\ seg[Len(seg)] = Close
    /\ \A i \in 1..(Len(seg) - 1) : seg[i].ev = "send"
    /\ CompleteResponse(MessagesOf(seg))

ReceiveStep ==
    /\ Len(h_trace') = Len(h_trace) + 1
    /\ h_trace'[Len(h_trace')].ev = "receive"

\* C22: __call__ handles the received messages one at a time, in receive
\* order: when it receives a message, every response message of the message
\* before it has been sent (or that request was aborted and has none); after
\* http.disconnect it receives and sends nothing more.
C22_OneMessageAtATime ==
    /\ [](/\ \A i \in ReceiveIndices :
               /\ h_trace[i].type = "http.disconnect" => i = Len(h_trace)
               /\ i < LastReceive =>
                    (SegmentOf(i) = << >> \/ SentAndClosed(SegmentOf(i)))
          /\ h_pc = "stopped" <=>
               (h_trace # << >>
                  /\ h_trace[Len(h_trace)] = Receive("http.disconnect")))
    /\ [][ /\ ReceiveStep =>
                (h_pc = "receive" /\ h_nsent = Len(out)
                   /\ enc_pc \in {"idle", "done"})
           /\ h_pc = "stopped" => (h_trace' = h_trace /\ h_pc' = "stopped")
         ]_vars

\* two requests were answered in full, one after the other, and then the
\* client disconnected
C22_Witness ==
    /\ h_pc = "stopped"
    /\ Cardinality(ReceiveIndices) = 3
    /\ \A i \in ReceiveIndices :
         i < LastReceive => SentAndClosed(SegmentOf(i))
    /\ Len(SegmentOf(1)) >= 4

\* C23: a request that cannot be built because of a UnicodeDecodeError gets a
\* complete 400 response, one that timed out a complete 408 response, and an
\* aborted one no message at all; in every case but the aborted one the
\* messages sent are a start message and then at least one chunk message, the
\* last of which ends the stream, and the response is closed only after the
\* last message was sent.
C23_RequestFailuresAnswered ==
    LET seg == SegmentOf(LastReceive)
        ms == MessagesOf(seg)
    IN /\ h_request = "RequestAborted" => (seg = << >> /\ h_pc = "receive")
       /\ h_request = "UnicodeDecodeError" => response.status_code = 400
       /\ h_request = "RequestTimeout" => response.status_code = 408
       /\ h_pc = "get_response" => ms = << >>
       /\ (h_request \in {"UnicodeDecodeError", "RequestTimeout", "ok"}
             /\ h_pc # "get_response") =>
            /\ ms = SubSeq(out, 1, h_nsent)
            /\ Len(ms) >= 1 =>
                 (ms[1].type = "http.response.start"
                    /\ ms[1].status = response.status_code)
            /\ h_pc = "receive" => SentAndClosed(seg)
            /\ \A i \in 1..Len(seg) : seg[i] = Close =>
                 (i = Len(seg) /\ h_nsent = Len(out) /\ enc_pc = "done")

\* a timed-out request was answered with its 408 response in three messages
C23_Witness ==
    /\ h_request = "RequestTimeout"
    /\ h_pc = "receive"
    /\ chunk_size = 1
    /\ Len(MessagesOf(SegmentOf(LastReceive))) = 3
    /\ MessagesOf(SegmentOf(LastReceive))[1].status = 408
    /\ h_trace[Len(h_trace)] = Close


(***************************************************************************)
(* Request codec  (channels/request.py)                                    *)
(***************************************************************************)

ParamKeys == {"a", "b"}
ParamValues == {"x", "y"}
PostKeys == {"a"}
CookieNames == {"sessionid"}

\* META keys as character strings, to decide k.startswith("wsgi")
MetaKeySet == { <<"w", "s", "g", "i", ".", "m">>, <<"P", "A", "T", "H">>,
                <<"w", "s">> }

\* python dicts with keys in K and values in V
Dicts(K, V) == UNION {[D -> V] : D \in SUBSET K}

\* a QueryDict / MultiValueDict: every key holds the list of its values
QueryDict(data) == [cls |-> "QueryDict", data |-> data]

QueryDicts(K) == {QueryDict(d) : d \in Dicts(K, SeqUpTo(ParamValues, MaxValues))}

\* MultiValueDict.items(): every key with its last value only
items(qd) ==
    {<<k, IF qd.data[k] = << >> THEN << >>
          ELSE <<qd.data[k][Len(qd.data[k])]>> >> : k \in DOMAIN qd.data}

\* MultiValueDict.lists(): every key with its list of values
lists(qd) == {<<k, qd.data[k]>> : k \in DOMAIN qd.data}

\* dict(pairs)
dict(pairs) ==
    [k \in {p[1] : p \in pairs} |-> (CHOOSE p \in pairs : p[1] = k)[2]]

\* MultiValueDict.getlist(key)
getlist(qd, k) == IF k \in DOMAIN qd.data THEN qd.data[k] ELSE << >>

\* str.startswith
startswith(str, prefix) ==
    Len(str) >= Len(prefix) /\ SubSeq(str, 1, Len(prefix)) = prefix

\* CustomQueryDict.__init__: MultiValueDict.__init__(self, values)
CustomQueryDict(values) == QueryDict([k \in DOMAIN values |-> values[k]])

Requests ==
    [GET : QueryDicts(ParamKeys), POST : QueryDicts(PostKeys),
     COOKIES : Dicts(CookieNames, ParamValues),
     META : Dicts(MetaKeySet, {"v"}) \ {<< >>},
     path : {"/", "/chat/"}, path_info : {"/"}, method : {"GET", "POST"},
     reply_channel : {"http.response.1"}]

\* encode_request
encode_request(r) ==
    [get |-> dict(lists(r.GET)),
     post |-> dict(lists(r.POST)),
     cookies |-> r.COOKIES,
     meta |-> [k \in {x \in DOMAIN r.META : ~startswith(x, <<"w", "s", "g", "i">>)}
                 |-> r.META[k]],
     path |-> r.path,
     path_info |-> r.path_info,
     method |-> r.method,
     reply_channel |-> r.reply_channel]

\* decode_request
decode_request(value) ==
    [GET |-> CustomQueryDict(value.get),
     POST |-> CustomQueryDict(value.post),
     COOKIES |-> value.cookies,
     META |-> value.meta,
     path |-> value.path,
     method |-> value.method,
     path_info |-> value.path_info,
     reply_channel |-> value.reply_channel]

ReqIdle ==
    /\ request = None
    /\ req_value = None
    /\ req_decoded = None
    /\ req_pc = "idle"

ReqInit ==
    /\ request \in Requests
    /\ req_value = None
    /\ req_decoded = None
    /\ req_pc = "encode"

\* a producer calls encode_request(request)
EncodeRequest ==
    /\ req_pc = "encode"
    /\ req_value' = encode_request(request)
    /\ req_pc' = "decode"
    /\ UNCHANGED <<request, req_decoded>>
    /\ UNCHANGED nonReqVars

\* the consumer side calls decode_request(value)
DecodeRequest ==
    /\ req_pc = "decode"
    /\ req_decoded' = decode_request(req_value)
    /\ req_pc' = "done"
    /\ UNCHANGED <<request, req_value>>
    /\ UNCHANGED nonReqVars

ReqNext ==
    \/ EncodeRequest
    \/ DecodeRequest

\* C10: decode_request(encode_request(R)) has the same GET and POST parameters
\* (the same keys, each with its full ordered list of values), the same
\* COOKIES, the same path and the same method as R.
C10_RequestRoundTrip ==
    req_pc = "done" =>
       /\ DOMAIN req_decoded.GET.data = DOMAIN request.GET.data
       /\ \A k \in ParamKeys : getlist(req_decoded.GET, k) = getlist(request.GET, k)
       /\ DOMAIN req_decoded.POST.data = DOMAIN request.POST.data
       /\ \A k \in ParamKeys : getlist(req_decoded.POST, k) = getlist(request.POST, k)
       /\ req_decoded.COOKIES = request.COOKIES
       /\ req_decoded.path = request.path
       /\ req_decoded.method = request.method

C10_Witness ==
    /\ req_pc = "done"
    /\ DOMAIN request.GET.data = {"a", "b"}
    /\ request.GET.data["a"] = <<"y", "x">>
    /\ request.GET.data["b"] = << >>
    /\ request.POST.data = [k \in {"a"} |-> <<"x", "x">>]
    /\ DOMAIN request.COOKIES = {"sessionid"}
    /\ DOMAIN request.META # DOMAIN req_decoded.META
    /\ getlist(req_decoded.GET, "a") = <<"y", "x">>


(***************************************************************************)
(* Response codec  (channels/response.py)                                  *)
(***************************************************************************)

\* body bytes: "A", and the lead and continuation byte of U+00E9
RespBytes == {65, 195, 169}

RespBodies == UNION {[1..k -> RespBytes] : k \in 0..MaxRespBody}

\* HttpResponse.content setter (make_bytes): text is encoded with the charset
make_bytes(value) ==
    IF value.t = "text" THEN Bytes(utf8_encode(value.s)) ELSE value

LowerChar(ch) ==
    CASE ch = "X" -> "x" [] ch = "A" -> "a" [] ch = "E" -> "e"
      [] ch = "T" -> "t" [] OTHER -> ch

\* str.lower
lower(str) == [i \in 1..Len(str) |-> LowerChar(str[i])]

\* a list holding the elements of a set (dict.values() in some order)
RECURSIVE list(_)
list(S) ==
    IF S = {} THEN << >>
    ELSE LET x == CHOOSE y \in S : TRUE IN <<x>> \o list(S \ {x})

\* HttpResponse.__setitem__ for each header: _headers[k.lower()] = (k, v)
HeadersDict(pairs) ==
    [lk \in {lower(pr[1]) : pr \in pairs} |->
        CHOOSE pr \in pairs : lower(pr[1]) = lk]

\* header sets without two spellings of one name
HeaderPairSets ==
    { {}, { << <<"E", "T", "a", "g">>, "v1" >> },
      { << <<"E", "T", "a", "g">>, "v1" >>, << <<"X", "-", "A">>, "v2" >> },
      { << <<"x", "-", "a">>, "v1" >> } }

\* a Morsel: key, value and the path attribute ("" when not set)
Morsels == [key : CookieNames, value : {"abc", "a b"}, path : {"", "/"}]

\* Cookie._quote: values with characters outside the legal set are quoted
NeedsQuote(v) == v = "a b"
quote(v) == IF NeedsQuote(v) THEN <<"\"", v, "\"">> ELSE <<v>>

\* Cookie._unquote
unquote(toks) == IF Len(toks) = 3 /\ toks[1] = "\"" THEN toks[2] ELSE toks[1]

\* Morsel.output(header=""): " key=coded_value[; Path=path]" as tokens
output(m) ==
    <<" ", m.key, "=">> \o quote(m.value)
    \o (IF m.path = "" THEN << >> ELSE <<";", " ", "Path", "=", m.path>>)

\* BaseCookie.load(rawdata) into an empty or loaded SimpleCookie: the key=value
\* item makes a morsel, a following reserved Path item sets its attribute
load(cookies, raw) ==
    LET semi == {i \in 1..Len(raw) : raw[i] = ";"}
        first == IF semi = {} THEN raw
                 ELSE SubSeq(raw, 1, (CHOOSE i \in semi : TRUE) - 1)
        rest == IF semi = {} THEN << >>
                ELSE SubSeq(raw, (CHOOSE i \in semi : TRUE) + 1, Len(raw))
        key == first[2]
        val == unquote(SubSeq(first, 4, Len(first)))
        path == IF Len(rest) >= 4 /\ rest[2] = "Path" THEN rest[4] ELSE ""
    IN DictSet(cookies, key, [key |-> key, value |-> val, path |-> path])

RECURSIVE load_all(_, _)
load_all(cookies, raws) ==
    IF raws = << >> THEN cookies
    ELSE load_all(load(cookies, Head(raws)), Tail(raws))

RespInputs ==
    [content : {Bytes(b) : b \in RespBodies},
     status_code : {200, 404},
     _headers : {HeadersDict(ps) : ps \in HeaderPairSets},
     cookies : Dicts(CookieNames, Morsels)]

\* encode_response, the value built at lines 9-15 (PY2: content stays bytes)
encode_response_py2(response_) ==
    [content_type |-> None,
     content |-> response_.content,
     status |-> response_.status_code,
     headers |-> list({response_._headers[k] : k \in DOMAIN response_._headers}),
     cookies |-> list({output(response_.cookies[n]) : n \in DOMAIN response_.cookies})]

\* line 17 raises UnicodeDecodeError
encode_response_raises(response_) ==
    PY3 /\ ~utf8_decode(response_.content.s).ok

\* encode_response
encode_response(response_) ==
    LET value == encode_response_py2(response_) IN
      IF PY3
        THEN [value EXCEPT !.content = Text(utf8_decode(value.content.s).s)]
        ELSE value

\* decode_response
decode_response(value) ==
    [content |-> make_bytes(value.content),
     status_code |-> value.status,
     cookies |-> load_all(<< >>, value.cookies),
     _headers |-> [lk \in {lower(value.headers[i][1]) : i \in 1..Len(value.headers)} |->
                     value.headers[CHOOSE i \in 1..Len(value.headers) :
                                      lower(value.headers[i][1]) = lk]]]

RespIdle ==
    /\ PY3 = FALSE
    /\ resp = None
    /\ resp_value = None
    /\ resp_decoded = None
    /\ resp_pc = "idle"

RespInit ==
    /\ PY3 \in BOOLEAN
    /\ resp \in RespInputs
    /\ resp_value = None
    /\ resp_decoded = None
    /\ resp_pc = "encode"

\* a consumer calls encode_response(resp)
EncodeResponse ==
    /\ resp_pc = "encode"
    /\ IF encode_response_raises(resp)
         THEN /\ resp_pc' = "raised"
              /\ UNCHANGED resp_value
         ELSE /\ resp_pc' = "decode"
              /\ resp_value' = encode_response(resp)
    /\ UNCHANGED <<PY3, resp, resp_decoded>>
    /\ UNCHANGED nonRespVars

\* the interface side calls decode_response(value)
DecodeResponse ==
    /\ resp_pc = "decode"
    /\ resp_decoded' = decode_response(resp_value)
    /\ resp_pc' = "done"
    /\ UNCHANGED <<PY3, resp, resp_value>>
    /\ UNCHANGED nonRespVars

RespNext ==
    \/ EncodeResponse
    \/ DecodeResponse

\* header set with the keys compared case-insensitively and the values exactly
HeaderSet(r) == {<<lower(r._headers[k][1]), r._headers[k][2]>> : k \in DOMAIN r._headers}

\* C9: decode_response(encode_response(Resp)) exists for every response Resp
\* and has the same status code, the same header set (keys compared
\* case-insensitively, values exactly), the same cookies and the same body
\* bytes as Resp.
C9_ResponseRoundTrip ==
    /\ resp_pc # "raised"
    /\ resp_pc = "done" =>
         /\ resp_decoded.status_code = resp.status_code
         /\ HeaderSet(resp_decoded) = HeaderSet(resp)
         /\ resp_decoded.cookies = resp.cookies
         /\ resp_decoded.content = resp.content


(***************************************************************************)
(* Consumer decorators  (channels/decorators.py)                           *)
(***************************************************************************)

\* python None in a slot that otherwise holds a string
NoneStr == "None"

SESSION_COOKIE_NAME == "sessionid"

\* dict.get(key): None when the key is missing
get(d, k) == IF k \in DOMAIN d THEN d[k] ELSE NoneStr

\* python truth value of a string or None
truthy(x) == x # NoneStr /\ x # ""

GetDicts == Dicts({"session_key"}, {"", "k1"})
CookieDicts == Dicts({SESSION_COOKIE_NAME}, {"", "k2"})

\* the keyword arguments of a message handed to an http consumer
HttpKwargs ==
    { << >> }
    \cup {[k \in {"GET"} |-> g] : g \in GetDicts}
    \cup {[k \in {"COOKIES"} |-> c] : c \in CookieDicts}
    \cup {[k \in {"GET", "COOKIES"} |-> IF k = "GET" THEN g ELSE c] :
             g \in GetDicts, c \in CookieDicts}

\* what a session can hold
SessionDatas == Dicts({"_auth_user_id", "x"}, {"v1"})

\* what the wrapped consumer does: whether it writes to the session it was
\* given (and what the session holds afterwards), and whether it raises
Funcs ==
    {f \in [modifies : BOOLEAN, data : SessionDatas, raises : BOOLEAN] :
        ~f.modifies => f.data = << >>}

\* session = None
NoSession ==
    [none |-> TRUE, session_key |-> NoneStr, data |-> << >>, modified |-> FALSE]

\* session_engine.SessionStore(session_key=...): the saved data of that key,
\* or an empty session
SessionStore(session_key) ==
    [none |-> FALSE, session_key |-> session_key,
     data |-> IF session_key \in DOMAIN sessions
                THEN sessions[session_key] ELSE << >>,
     modified |-> FALSE]

\* the session after func ran on it
RunConsumer(f, session) ==
    IF session.none \/ ~f.modifies THEN session
    ELSE [session EXCEPT !.data = f.data, !.modified = TRUE]

\* lines 53-57: the session key taken from GET, else from the cookie
http_session_key(kwargs) ==
    LET from_get == IF "GET" \in DOMAIN kwargs
                      THEN get(kwargs["GET"], "session_key") ELSE NoneStr
    IN IF "COOKIES" \in DOMAIN kwargs /\ from_get = NoneStr
         THEN get(kwargs["COOKIES"], SESSION_COOKIE_NAME)
         ELSE from_get

\* lines 59-63: the session for that key, or None
http_session_store(kwargs) ==
    IF truthy(http_session_key(kwargs))
      THEN SessionStore(http_session_key(kwargs))
      ELSE NoSession

\* the save of a decorator written with try / finally
session_save_finally(session, raised) ==
    ~session.none /\ session.modified

\* lines 66-69: save() is reached only when func returned, and runs only for
\* a modified session
session_save(session, raised) ==
    ~raised /\ ~session.none /\ session.modified

\* auth.get_user(fake_request): the user the session data names
get_user(session) ==
    IF "_auth_user_id" \in DOMAIN session.data
      THEN session.data["_auth_user_id"] ELSE "AnonymousUser"

\* http_django_auth, lines 88-95: the user handed to the consumer
http_django_auth_user(session) ==
    IF session.none THEN NoneStr ELSE get_user(session)

NoCall ==
    [decorator |-> "none", kwargs |-> << >>,
     func |-> [modifies |-> FALSE, data |-> << >>, raises |-> FALSE],
     invoked |-> FALSE, session |-> NoSession, user |-> NoneStr,
     after |-> NoSession, outcome |-> "none", saved |-> FALSE]

\* http_session's inner(**kwargs), lines 48-70, around the consumer f
http_session(decorator, f, kwargs) ==
    IF "COOKIES" \notin DOMAIN kwargs /\ "GET" \notin DOMAIN kwargs
      THEN [NoCall EXCEPT !.decorator = decorator, !.kwargs = kwargs,
                          !.func = f, !.outcome = "ValueError"]
      ELSE LET session == http_session_store(kwargs)
               after == RunConsumer(f, session)
           IN [decorator |-> decorator, kwargs |-> kwargs, func |-> f,
               invoked |-> TRUE, session |-> session,
               user |-> IF decorator = "http_django_auth"
                          THEN http_django_auth_user(session) ELSE NoneStr,
               after |-> after,
               outcome |-> IF f.raises THEN "raised" ELSE "returned",
               saved |-> session_save(after, f.raises)]

\* session.save()
save(session) == DictSet(sessions, session.session_key, session.data)

DecoratorInit ==
    /\ sessions = << >>
    /\ d_last = NoCall
    /\ d_hist = << >>

\* a worker calls a consumer wrapped with http_session
HttpSessionCall(f, kwargs) ==
    /\ d_last' = http_session("http_session", f, kwargs)
    /\ sessions' = IF d_last'.saved THEN save(d_last'.after) ELSE sessions
    /\ UNCHANGED d_hist
    /\ UNCHANGED nonDecoratorVars

\* a worker calls a consumer wrapped with http_django_auth
HttpDjangoAuthCall(f, kwargs) ==
    /\ d_last' = http_session("http_django_auth", f, kwargs)
    /\ sessions' = IF d_last'.saved THEN save(d_last'.after) ELSE sessions
    /\ UNCHANGED d_hist
    /\ UNCHANGED nonDecoratorVars

HttpSessionNext ==
    \/ \E f \in Funcs, kwargs \in HttpKwargs : HttpSessionCall(f, kwargs)
    \/ \E f \in Funcs, kwargs \in HttpKwargs : HttpDjangoAuthCall(f, kwargs)

\* C16: the session of an http_session consumer is saved after the call only
\* when the consumer returned normally and the session is marked modified;
\* when the consumer raises, the exception reaches the caller and nothing is
\* saved: the session backend changes only by that save.
C16_SavedOnlyAfterNormalReturn ==
    /\ [](d_last.invoked =>
            /\ d_last.saved <=>
                 (d_last.outcome = "returned" /\ ~d_last.after.none
                    /\ d_last.after.modified)
            /\ d_last.func.raises =>
                 (d_last.outcome = "raised" /\ ~d_last.saved))
    /\ [][ /\ ~d_last'.saved => sessions' = sessions
           /\ d_last'.saved =>
                sessions' = DictSet(sessions, d_last'.after.session_key,
                                    d_last'.after.data) ]_vars

\* a consumer wrote to the session of key k1 and raised; the backend still
\* holds for k1 what an earlier consumer saved
C16_Witness ==
    /\ d_last.decorator = "http_session"
    /\ d_last.invoked
    /\ d_last.func.raises
    /\ d_last.after.modified
    /\ ~d_last.saved
    /\ "k1" \in DOMAIN sessions
    /\ sessions["k1"] # d_last.after.data
    /\ d_last.after.session_key = "k1"

HasSessionCookie(kwargs) ==
    "COOKIES" \in DOMAIN kwargs /\ SESSION_COOKIE_NAME \in DOMAIN kwargs["COOKIES"]

\* C17: an http_django_auth consumer called with a message that carries no
\* session cookie is invoked with session = None and user = None.
C17_NoCookieNoSessionNoUser ==
    (d_last.decorator = "http_django_auth" /\ d_last.invoked
       /\ ~HasSessionCookie(d_last.kwargs)) =>
          (d_last.session.none /\ d_last.user = NoneStr)

SuppliesKey(kwargs, arg, k) ==
    arg \in DOMAIN kwargs /\ k \in DOMAIN kwargs[arg] /\ kwargs[arg][k] # ""

\* C19: an http_session consumer gets a session whenever the message has a
\* non-empty session key in the session_key GET parameter or in the session
\* cookie, and None when neither has one; a message with neither GET nor
\* COOKIES raises ValueError and the consumer is not invoked.
C19_SessionFromGetOrCookie ==
    d_last.decorator = "http_session" =>
       IF "GET" \notin DOMAIN d_last.kwargs /\ "COOKIES" \notin DOMAIN d_last.kwargs
         THEN d_last.outcome = "ValueError" /\ ~d_last.invoked
         ELSE /\ d_last.invoked
              /\ ~d_last.session.none <=>
                   \/ SuppliesKey(d_last.kwargs, "GET", "session_key")
                   \/ SuppliesKey(d_last.kwargs, "COOKIES", SESSION_COOKIE_NAME)

\* the length of the random section of a channel name
SuffixLen == 24

Max(a, b) == IF a > b THEN a ELSE b

\* python slices s[:-SuffixLen] and s[-SuffixLen:]
SliceBeforeLast(s) == SubSeq(s, 1, Max(Len(s) - SuffixLen, 0))
SliceLast(s) == SubSeq(s, Max(Len(s) - SuffixLen, 0) + 1, Len(s))

\* a random section made of one character
RandomSection(ch) == [i \in 1..SuffixLen |-> ch]

\* reply channel names: a readable prefix and the random section
SendChannels ==
    { <<"s", "e", "n", "d", ".">> \o RandomSection("a"),
      <<"s", "e", "n", "d", ".">> \o RandomSection("b") }

\* the keyword arguments of a message handed to a websocket consumer
ChannelKwargs == Dicts({"send_channel"}, SendChannels)

ChannelDatas == Dicts({"x"}, {"v1", "v2"})

ChannelFuncs ==
    {f \in [modifies : BOOLEAN, data : ChannelDatas, raises : BOOLEAN] :
        ~f.modifies => f.data = << >>}

\* hashlib.md5(s).hexdigest()[:8], kept symbolic
md5_hexdigest8(s) == <<"md5", s>>

\* a session key that leaves the random section out
channel_session_key_hash_only(name) ==
    <<"skt", md5_hexdigest8(SliceBeforeLast(name)), << >> >>

\* line 116: "skt" + md5(send_channel[:-24]).hexdigest()[:8] + send_channel[-24:]
channel_session_key(name) ==
    <<"skt", md5_hexdigest8(SliceBeforeLast(name)), SliceLast(name)>>

\* session.exists(session_key)
exists(session_key) == session_key \in DOMAIN sessions

\* send_channel_session's inner(**kwargs), lines 108-129, around the consumer
\* f: what the call did, and the session backend after it
send_channel_session(f, kwargs) ==
    IF "send_channel" \notin DOMAIN kwargs
      THEN [call |-> [kwargs |-> kwargs, func |-> f, invoked |-> FALSE,
                      seen |-> << >>, left |-> << >>, modified |-> FALSE,
                      outcome |-> "ValueError"],
            sessions |-> sessions]
      ELSE LET session == SessionStore(channel_session_key(kwargs["send_channel"]))
               forced == IF exists(session.session_key)
                           THEN sessions ELSE save(session)
               after == RunConsumer(f, session)
           IN [call |-> [kwargs |-> kwargs, func |-> f, invoked |-> TRUE,
                         seen |-> session.data, left |-> after.data,
                         modified |-> after.modified,
                         outcome |-> IF f.raises THEN "raised" ELSE "returned"],
               sessions |-> IF session_save(after, f.raises)
                              THEN DictSet(forced, after.session_key, after.data)
                              ELSE forced]

\* the worker calls a consumer wrapped with send_channel_session
SendChannelSessionCall(f, kwargs) ==
    /\ Len(d_hist) < MaxCalls
    /\ LET r == send_channel_session(f, kwargs) IN
         /\ d_hist' = Append(d_hist, r.call)
         /\ sessions' = r.sessions
    /\ UNCHANGED d_last
    /\ UNCHANGED nonDecoratorVars

ChannelSessionNext ==
    \E f \in ChannelFuncs, kwargs \in ChannelKwargs : SendChannelSessionCall(f, kwargs)

\* the calls before call j that had the same send_channel, modified the
\* channel_session and returned normally
ModifiersBefore(j) ==
    {i \in 1..(j - 1) :
        /\ d_hist[i].kwargs = d_hist[j].kwargs
        /\ d_hist[i].modified
        /\ d_hist[i].outcome = "returned"}

\* what the latest of them left in the channel_session
LeftBefore(j) ==
    IF ModifiersBefore(j) = {} THEN << >>
    ELSE d_hist[CHOOSE i \in ModifiersBefore(j) :
                   \A k \in ModifiersBefore(j) : k <= i].left

\* C18: a send_channel_session consumer sees in channel_session what the
\* latest consumer with the same send_channel that modified it and returned
\* normally left there; a message without send_channel raises ValueError and
\* the consumer is not invoked.
C18_ChannelSessionPersists ==
    \A j \in 1..Len(d_hist) :
       IF "send_channel" \in DOMAIN d_hist[j].kwargs
         THEN d_hist[j].invoked /\ d_hist[j].seen = LeftBefore(j)
         ELSE d_hist[j].outcome = "ValueError" /\ ~d_hist[j].invoked

\* one consumer writes, a consumer of another connection writes something
\* else, and the next consumer of the first connection sees the first write
C18_Witness ==
    /\ Len(d_hist) = 3
    /\ d_hist[1].kwargs = d_hist[3].kwargs
    /\ d_hist[2].kwargs # d_hist[1].kwargs
    /\ "send_channel" \in DOMAIN d_hist[2].kwargs
    /\ d_hist[1].modified /\ d_hist[1].outcome = "returned"
    /\ d_hist[2].modified /\ d_hist[2].outcome = "returned"
    /\ d_hist[1].left = [k \in {"x"} |-> "v1"]
    /\ d_hist[2].left = [k \in {"x"} |-> "v2"]
    /\ d_hist[3].seen = [k \in {"x"} |-> "v1"]

(***************************************************************************)
(* runserver  (channels/management/commands/runserver.py)                  *)
(***************************************************************************)

RoutedChannels ==
    {"http.request", "django.websocket.connect", "django.websocket.receive"}

\* the consumers a project registers itself
UserConsumers == {"consumer_a", "consumer_b"}

\* registry.consumer_for_channel(channel): the handler, or None
consumer_for_channel(channel) == get(consumers, channel)

\* registry.add_consumer(consumer, channels): DuplicateConsumer when one of
\* the names already has a handler, and the registry is then left as it was
add_consumer(consumer, names) ==
    IF \E n \in names : n \in DOMAIN consumers
      THEN [raised |-> TRUE, consumers |-> consumers]
      ELSE [raised |-> FALSE,
            consumers |-> [n \in (DOMAIN consumers) \cup names |->
                             IF n \in names THEN consumer ELSE consumers[n]]]

RunserverIdle ==
    /\ consumers = << >>
    /\ rs_pc = "idle"
    /\ rs_added = FALSE
    /\ rs_error = "none"
    /\ worker_started = FALSE
    /\ w_channels = {}

\* inner_run is entered with whatever the project's modules registered
RunserverInit ==
    /\ consumers \in Dicts(RoutedChannels, UserConsumers)
    /\ rs_pc = "check"
    /\ rs_added = FALSE
    /\ rs_error = "none"
    /\ worker_started = FALSE
    /\ w_channels = {}

\* an inner_run that registers the default consumer without looking first
InnerRunRegisterAlways ==
    /\ rs_pc = "check"
    /\ LET r == add_consumer("UrlConsumer", {"http.request"}) IN
         /\ rs_added' = TRUE
         /\ consumers' = r.consumers
         /\ rs_error' = IF r.raised THEN "DuplicateConsumer" ELSE "none"
         /\ rs_pc' = IF r.raised THEN "raised" ELSE "start_worker"
    /\ UNCHANGED <<worker_started, w_channels>>
    /\ UNCHANGED nonRunserverVars

\* lines 32-35: register the default consumer when http.request has none
InnerRunRegister ==
    /\ rs_pc = "check"
    /\ IF ~truthy(consumer_for_channel("http.request"))
         THEN LET r == add_consumer("UrlConsumer", {"http.request"}) IN
                /\ rs_added' = TRUE
                /\ consumers' = r.consumers
                /\ rs_error' = IF r.raised THEN "DuplicateConsumer" ELSE "none"
                /\ rs_pc' = IF r.raised THEN "raised" ELSE "start_worker"
         ELSE /\ rs_pc' = "start_worker"
              /\ UNCHANGED <<consumers, rs_added, rs_error>>
    /\ UNCHANGED <<worker_started, w_channels>>
    /\ UNCHANGED nonRunserverVars

\* lines 40-43: launch the worker thread
InnerRunStartWorker ==
    /\ rs_pc = "start_worker"
    /\ worker_started' = TRUE
    /\ rs_pc' = "serve"
    /\ UNCHANGED <<consumers, rs_added, rs_error, w_channels>>
    /\ UNCHANGED nonRunserverVars

\* line 45: the rest of inner_run serves requests
InnerRunServe ==
    /\ rs_pc = "serve"
    /\ rs_pc' = "serving"
    /\ UNCHANGED <<consumers, rs_added, rs_error, worker_started, w_channels>>
    /\ UNCHANGED nonRunserverVars

\* lines 56-57: the worker loop takes the channel names that have a consumer
WorkerRun ==
    /\ worker_started
    /\ w_channels' = DOMAIN consumers
    /\ w_channels' # w_channels
    /\ UNCHANGED <<consumers, rs_pc, rs_added, rs_error, worker_started>>
    /\ UNCHANGED nonRunserverVars

RunserverNext ==
    \/ InnerRunRegister
    \/ InnerRunStartWorker
    \/ InnerRunServe
    \/ WorkerRun

\* C24: inner_run registers UrlConsumer for http.request if and only if the
\* channel has no consumer at that moment: a consumer the project registered
\* is never replaced, no registration of a taken name is attempted, and the
\* worker thread starts only after the check, with http.request routed.
C24_DefaultConsumerOnlyWhenMissing ==
    /\ [](/\ rs_error = "none"
          /\ rs_pc # "raised"
          /\ worker_started =>
               (rs_pc \in {"serve", "serving"}
                  /\ "http.request" \in DOMAIN consumers)
          /\ w_channels # {} => "http.request" \in w_channels
          /\ rs_added =>
               ("http.request" \in DOMAIN consumers
                  /\ consumers["http.request"] = "UrlConsumer"))
    /\ [][ /\ \A ch \in DOMAIN consumers :
                ch \in DOMAIN consumers' /\ consumers'[ch] = consumers[ch]
           /\ (rs_pc = "check" /\ rs_pc' # "check") =>
                /\ rs_added' <=> "http.request" \notin DOMAIN consumers
                /\ ~rs_added' => consumers' = consumers
                /\ rs_added' =>
                     (DOMAIN consumers' = DOMAIN consumers \cup {"http.request"})
                /\ ~worker_started
           /\ rs_pc # "check" => consumers' = consumers
         ]_vars

\* the project registered its own http.request consumer and one more; the
\* worker runs with both and the default was not added
C24_Witness ==
    /\ rs_pc = "serving"
    /\ ~rs_added
    /\ consumers = [ch \in {"http.request", "django.websocket.receive"} |->
                      IF ch = "http.request" THEN "consumer_a" ELSE "consumer_b"]
    /\ w_channels = {"http.request", "django.websocket.receive"}

Init == WsInit /\ HttpIdle /\ ReqIdle /\ RespIdle /\ HandleIdle /\ DecoratorInit /\ RunserverIdle

Next == WsNext

Spec == Init /\ [][Next]_vars

\* The reader thread always gets to run, and receive_many does not starve a
\* channel that keeps having a message (the backend shuffles the channels).
FairSpec ==
    /\ Init
    /\ [][Next]_vars
    /\ WF_vars(ReaderSnapshot)
    /\ WF_vars(ReaderReceiveNone)
    /\ WF_vars(ReaderDispatch)
    /\ \A c \in Conns : WF_vars(onOpenSend(c)) /\ WF_vars(onCloseSend(c))
    /\ \A n \in Names : SF_vars(ReaderReceive(n))

\* the protocol callbacks alone: connections open, take frames and close
ProtocolInit ==
    /\ conn_state = [c \in Conns |-> "new"]
    /\ send_channel = [c \in Conns |-> None]
    /\ FactoryInit
    /\ names_generated = 0
    /\ queues = [n \in Names |-> << >>]
    /\ sent = [ch \in WsChannels |-> << >>]
    /\ written = [c \in Conns |-> << >>]
    /\ reader_pc = "idle"
    /\ channels = {}
    /\ recv = [channel |-> None, message |-> [content |-> None]]
    /\ nsends = 0
    /\ nframes = 0
    /\ inbound = [c \in Conns |-> << >>]

ProtocolNext ==
    \/ \E c \in Conns : onOpen(c)
    \/ \E c \in Conns : onOpenSend(c)
    \/ \E c \in Conns : \E p \in FramePayloads : \E b \in BOOLEAN : onMessage(c, p, b)
    \/ \E c \in Conns : onClose(c)
    \/ \E c \in Conns : onCloseSend(c)

InitProtocol ==
    ProtocolInit /\ HttpIdle /\ ReqIdle /\ RespIdle /\ HandleIdle /\ DecoratorInit /\ RunserverIdle

SpecProtocol == InitProtocol /\ [][ProtocolNext]_vars

InitHttp == HttpInit /\ WsIdle /\ ReqIdle /\ RespIdle /\ HandleIdle /\ DecoratorInit /\ RunserverIdle

SpecHttp == InitHttp /\ [][HttpNext]_vars

InitRequest == ReqInit /\ WsIdle /\ HttpIdle /\ RespIdle /\ HandleIdle /\ DecoratorInit /\ RunserverIdle

SpecRequest == InitRequest /\ [][ReqNext]_vars

InitResponse == RespInit /\ WsIdle /\ HttpIdle /\ ReqIdle /\ HandleIdle /\ DecoratorInit /\ RunserverIdle

SpecResponse == InitResponse /\ [][RespNext]_vars

InitHandle == HandleInit /\ WsIdle /\ ReqIdle /\ RespIdle /\ DecoratorInit /\ RunserverIdle

SpecHandle == InitHandle /\ [][HandleNext]_vars

InitDecorators ==
    DecoratorInit /\ WsIdle /\ HttpIdle /\ ReqIdle /\ RespIdle /\ HandleIdle /\ RunserverIdle

SpecHttpSession == InitDecorators /\ [][HttpSessionNext]_vars

SpecChannelSession == InitDecorators /\ [][ChannelSessionNext]_vars

InitRunserver ==
    RunserverInit /\ WsIdle /\ HttpIdle /\ ReqIdle /\ RespIdle /\ HandleIdle
      /\ DecoratorInit

SpecRunserver == InitRunserver /\ [][RunserverNext]_vars

TypeOK ==
    /\ reader_pc \in {"snapshot", "receive", "dispatch", "crashed"}
    /\ DOMAIN protocols \subseteq Names

====
